---- MODULE Spec2Model ----
(***************************************************************************)
(* Model of the streaming generation client of halteres-mobile:            *)
(*   - useProgramGeneration (src/hooks/useWorkout.ts, lines 519-811): the   *)
(*     generation orchestrator (generateProgram, cancel, React state);     *)
(*   - createSSEClientWithPost (src/lib/api/sseClient.ts, lines 144-250):   *)
(*     the progressive-poll transport built on XMLHttpRequest.             *)
(*                                                                         *)
(* JavaScript runs one task at a time, so every action below is one task:  *)
(* a call made by the user interface, one XMLHttpRequest event dispatched   *)
(* to the handlers the transport installed, one timer callback, or the     *)
(* resumption of generateProgram after an await.                           *)
(*                                                                         *)
(* XMLHttpRequest is the runtime's. Its dispatch order is the one of the   *)
(* XMLHttpRequest standard (and of React Native's implementation): when a  *)
(* request fails or is aborted while in flight, readyState becomes DONE    *)
(* and readystatechange is dispatched BEFORE the error / abort event.      *)
(*                                                                         *)
(* A response is modelled at the level of the frames the transport hands   *)
(* to onMessage: each LOADING / DONE transition makes a batch of complete   *)
(* frames available, each frame being the parsed JSON payload of its data. *)
(*                                                                         *)
(* Seven specifications share the actions of the hook:                     *)
(*   Spec          one call of generateProgram with every transport event, *)
(*                 the deadline timer and cancel();                        *)
(*   SpecDelivery  one call whose responses are 200, with every payload    *)
(*                 type and a record of the frames handed to onMessage;    *)
(*   SpecStale     the retry path when an error response carries frames;   *)
(*   SpecHook      generateProgram and cancel() called at any time;        *)
(*   SpecOpen      one call whose response has a status of 2xx or not;     *)
(*   SpecOrder     one call followed from the text of its response body;   *)
(*   SpecLive      Spec with the scheduling of the awaited operations.     *)
(* Four more follow the transport at the level of the response text:       *)
(*   SpecParse     parseSSEMessage on a message;                           *)
(*   SpecFraming   the split of the text read by createSSEClientWithPost;  *)
(*   SpecFetch     createSSEClient (fetch and the reader of the body);     *)
(*   SpecDays      the weekday names of the form turned into day codes.    *)
(***************************************************************************)
EXTENDS Naturals, Integers, Sequences, FiniteSets, TLC

(* ---- bounds ---- *)
MaxUnits == 2
MaxBatch == 2
MaxFrames == 3

(* ---- program constants ---- *)
MAX_RETRIES == 2
HTTP_OK == 200

(* The calls of generateProgram on a hook instance, in the order they are *)
(* made; SingleCall for the specifications that follow one call.           *)
Jobs == {1, 2}
SingleCall == {1}
(* One request per pass of the retry loop; one slot more than the loop may *)
(* use, so that a request too many is a state and not a type error.        *)
Tries == 0..(MAX_RETRIES + 1)
Attempts == Jobs \X Tries
NoAttempt == <<0, 0>>
NoTimer == 0
UnitIds == 1..MaxUnits
Variants == {"v1", "v2"}
Weeks == {1, 4}
Days == {3}
Statuses == {200, 500, 503, 504}

(* Messages are sequences of words, so that String.includes is a search. *)
Null == <<>>
MsgNoToken == <<"No", "authentication", "token">>
MsgNetwork == <<"Network", "error">>
MsgCancelled == <<"Generation", "cancelled">>
MsgGenerationFailed == <<"Generation", "failed">>
MsgInvalid == <<"Invalid", "request">>
HttpErrorMsg(st) == <<"HTTP", "error!", "status:", ToString(st)>>
Includes(msg, word) == \E i \in DOMAIN msg : msg[i] = word

VARIABLES
  isGenerating, stage, progress, streamingWorkouts, error,
  abortControllerRef, timerRef, intervals,
  pc, retryCount, lastError, result, formData,
  readyState, xhrStatus, promise, rejection, processedWorkouts, timeoutId,
  jobsStarted, settledBy, errorPayload, cancelledJobs, delivered, callbacks,
  text, lastIndex, buffer, emitted, consumed, fetchState, fetchCalls, parsed,
  daysOfWeek, daysOfWeekNumbers, libPc

hookVars == <<isGenerating, stage, progress, streamingWorkouts, error,
              abortControllerRef, timerRef, intervals>>
jobVars == <<pc, retryCount, lastError, result, formData>>
xhrVars == <<readyState, xhrStatus, promise, rejection, processedWorkouts, timeoutId>>
ghostVars == <<jobsStarted, settledBy, errorPayload, cancelledJobs, delivered, callbacks>>
libVars == <<text, lastIndex, buffer, emitted, consumed, fetchState, fetchCalls, parsed,
             daysOfWeek, daysOfWeekNumbers, libPc>>
vars == <<hookVars, jobVars, xhrVars, ghostVars, libVars>>

NoResult == [settled |-> FALSE, success |-> FALSE, workoutsCreated |-> 0, error |-> Null]

(* ---- frames: the parsed payload of event.data ---- *)
(* id 0 stands for a workout_chunk payload without a workout.            *)
Payload(t, i, v, m) == [type |-> t, id |-> i, variant |-> v, message |-> m]
PlainTypes == {"notjson", "status", "program_metadata", "warning", "complete", "other"}
AllFrames ==
  {Payload(t, 0, "v1", Null) : t \in PlainTypes}
    \cup {Payload("workout_chunk", i, v, Null) : i \in UnitIds \cup {0}, v \in Variants}
    \cup {Payload("error", 0, "v1", m) : m \in {Null, MsgInvalid}}
LifecycleFrames ==
  {Payload("complete", 0, "v1", Null)}
    \cup {Payload("workout_chunk", i, "v1", Null) : i \in UnitIds}
    \cup {Payload("error", 0, "v1", MsgInvalid)}
Batches == UNION {[1..n -> LifecycleFrames] : n \in 0..MaxBatch}

(* The callbacks one invocation of createSSEClientWithPost has made, with  *)
(* whether its signal was triggered while the request was in flight,       *)
(* whether onMessage or onError was invoked after that, and whether        *)
(* onMessage was invoked after the promise of the executor was rejected.   *)
NoCalls == [onOpen |-> 0, onClose |-> 0, onError |-> 0,
            aborted |-> FALSE, afterAbort |-> FALSE, afterReject |-> FALSE]

(* No response text, no invocation of createSSEClient, nothing parsed.     *)
(* consumed is the record of the text appended to the buffer so far.       *)
NoFetchCalls == [onOpen |-> 0, onClose |-> 0, onError |-> 0]
NoEvent == [isNull |-> TRUE, event |-> <<>>, data |-> <<>>]

LibIdle ==
  /\ text = <<>>
  /\ lastIndex = 0
  /\ buffer = <<>>
  /\ emitted = <<>>
  /\ consumed = <<>>
  /\ fetchState = "none"
  /\ fetchCalls = NoFetchCalls
  /\ parsed = NoEvent
  /\ daysOfWeek = <<>>
  /\ daysOfWeekNumbers = <<>>
  /\ libPc = "idle"

HookInit ==
  /\ isGenerating = FALSE
  /\ stage = "idle"
  /\ progress = [current |-> 0, total |-> 0]
  /\ streamingWorkouts = <<>>
  /\ error = Null
  /\ abortControllerRef = NoAttempt
  /\ timerRef = NoTimer
  /\ intervals = {}
  /\ pc = [j \in Jobs |-> "none"]
  /\ retryCount = [j \in Jobs |-> 0]
  /\ lastError = [j \in Jobs |-> Null]
  /\ result = [j \in Jobs |-> NoResult]
  /\ formData = [j \in Jobs |-> [numberOfWeeks |-> 0, daysPerWeek |-> 0]]
  /\ readyState = [a \in Attempts |-> "UNSENT"]
  /\ xhrStatus = [a \in Attempts |-> 0]
  /\ promise = [a \in Attempts |-> "none"]
  /\ rejection = [a \in Attempts |-> Null]
  /\ processedWorkouts = [a \in Attempts |-> {}]
  /\ timeoutId = [a \in Attempts |-> FALSE]
  /\ jobsStarted = 0
  /\ settledBy = [a \in Attempts |-> "none"]
  /\ errorPayload = [a \in Attempts |-> FALSE]
  /\ cancelledJobs = {}
  /\ delivered = <<>>
  /\ callbacks = [a \in Attempts |-> NoCalls]

Init == HookInit /\ LibIdle

(* clearInterval(timerRef.current), guarded by if (timerRef.current) *)
ClearInterval == IF timerRef # NoTimer THEN intervals \ {timerRef} ELSE intervals

(* generateProgram, lines 554-567: reset state, start the duration timer. *)
(* retryCount is 0, so the loop goes straight to await getSession().      *)
GenerateProgram(j, w, d) ==
  /\ j = jobsStarted + 1
  /\ j \in Jobs
  /\ jobsStarted' = j
  /\ isGenerating' = TRUE
  /\ error' = Null
  /\ stage' = "preparing"
  /\ progress' = [current |-> 0, total |-> 0]
  /\ streamingWorkouts' = <<>>
  /\ timerRef' = j
  /\ intervals' = intervals \cup {j}
  /\ retryCount' = [retryCount EXCEPT ![j] = 0]
  /\ lastError' = [lastError EXCEPT ![j] = Null]
  /\ formData' = [formData EXCEPT ![j] = [numberOfWeeks |-> w, daysPerWeek |-> d]]
  /\ pc' = [pc EXCEPT ![j] = "getSession"]
  /\ UNCHANGED <<libVars, abortControllerRef, result, xhrVars,
                 settledBy, errorPayload, cancelledJobs, delivered, callbacks>>

(* IsRetryable with every error taken for a transient one *)
IsRetryableAnyError(msg) == msg # Null

(* lines 754-758: the retry classification of the catch block *)
IsRetryable(msg) ==
  Includes(msg, "503") \/ Includes(msg, "504") \/ Includes(msg, "Network")

(* CanRetry with the ceiling off by one *)
CanRetryOnceMore(rc) == rc <= MAX_RETRIES + 1

(* line 760 (and the loop condition of line 570), after retryCount++ *)
CanRetry(rc) == rc <= MAX_RETRIES

(* ExpectedTotal with the sum in place of the product *)
ExpectedTotalSum(fd) == fd.numberOfWeeks + fd.daysPerWeek

(* line 665: expectedTotal *)
ExpectedTotal(fd) == fd.numberOfWeeks * fd.daysPerWeek

(* The attempt job j is in: one request is opened per pass of the loop. *)
CurrentAttempt(j) == <<j, retryCount[j]>>

(* A settled promise resumes generateProgram in a microtask, which runs   *)
(* before the next task (event, timer callback or call from the user       *)
(* interface): a task starts only when no continuation is waiting.         *)
MicrotasksDrained ==
  \A j \in Jobs : pc[j] = "stream" => promise[CurrentAttempt(j)] = "pending"

(* Catch with the message of the first failure kept for display *)
CatchFirstError(j, err) ==
  /\ lastError' = [lastError EXCEPT ![j] = err]
  /\ IF IsRetryable(err)
       THEN retryCount' = [retryCount EXCEPT ![j] = @ + 1]
       ELSE UNCHANGED retryCount
  /\ IF IsRetryable(err) /\ CanRetry(retryCount[j] + 1)
       THEN /\ stage' = "retrying"
            /\ streamingWorkouts' = <<>>
            /\ pc' = [pc EXCEPT ![j] = "delay"]
            /\ UNCHANGED <<error, intervals, isGenerating, result>>
       ELSE /\ stage' = "error"
            /\ error' = (IF lastError[j] # Null THEN lastError[j]
                         ELSE IF err # Null THEN err ELSE MsgGenerationFailed)
            /\ intervals' = ClearInterval
            /\ isGenerating' = FALSE
            /\ result' = [result EXCEPT ![j] =
                 [settled |-> TRUE, success |-> FALSE, workoutsCreated |-> 0,
                  error |-> err]]
            /\ pc' = [pc EXCEPT ![j] = "done"]
            /\ UNCHANGED streamingWorkouts

(* lines 750-782: the catch block, then either the next pass of the loop  *)
(* up to await delay() (lines 570-575) or the failure path.               *)
Catch(j, err) ==
  /\ lastError' = [lastError EXCEPT ![j] = err]
  /\ IF IsRetryable(err)
       THEN retryCount' = [retryCount EXCEPT ![j] = @ + 1]
       ELSE UNCHANGED retryCount
  /\ IF IsRetryable(err) /\ CanRetry(retryCount[j] + 1)
       THEN /\ stage' = "retrying"
            /\ streamingWorkouts' = <<>>
            /\ pc' = [pc EXCEPT ![j] = "delay"]
            /\ UNCHANGED <<error, intervals, isGenerating, result>>
       ELSE /\ stage' = "error"
            /\ error' = (IF err # Null THEN err ELSE MsgGenerationFailed)
            /\ intervals' = ClearInterval
            /\ isGenerating' = FALSE
            /\ result' = [result EXCEPT ![j] =
                 [settled |-> TRUE, success |-> FALSE, workoutsCreated |-> 0,
                  error |-> err]]
            /\ pc' = [pc EXCEPT ![j] = "done"]
            /\ UNCHANGED streamingWorkouts

(* lines 575-576: the retry delay has elapsed; next await is getSession. *)
DelayElapsed(j) ==
  /\ MicrotasksDrained
  /\ pc[j] = "delay"
  /\ pc' = [pc EXCEPT ![j] = "getSession"]
  /\ UNCHANGED <<libVars, hookVars, retryCount, lastError, result, formData, xhrVars, ghostVars>>

(* lines 578-585 with no session: throw "No authentication token". *)
GetSessionNoToken(j) ==
  /\ MicrotasksDrained
  /\ pc[j] = "getSession"
  /\ Catch(j, MsgNoToken)
  /\ UNCHANGED <<libVars, progress, abortControllerRef, timerRef, formData, xhrVars, ghostVars>>

(* lines 578-737 with a session: build the request, setStage("generating"), *)
(* create the controller and its deadline timer, and run the executor of   *)
(* createSSEClientWithPost (sseClient.ts 155-176, 234): open and send.      *)
GetSessionToken(j) ==
  LET a == CurrentAttempt(j) IN
  /\ MicrotasksDrained
  /\ pc[j] = "getSession"
  /\ stage' = "generating"
  /\ progress' = [current |-> 0, total |-> ExpectedTotal(formData[j])]
  /\ abortControllerRef' = a
  /\ timeoutId' = [timeoutId EXCEPT ![a] = TRUE]
  /\ processedWorkouts' = [processedWorkouts EXCEPT ![a] = {}]
  /\ readyState' = [readyState EXCEPT ![a] = "OPENED"]
  /\ promise' = [promise EXCEPT ![a] = "pending"]
  /\ pc' = [pc EXCEPT ![j] = "stream"]
  /\ UNCHANGED <<libVars, isGenerating, streamingWorkouts, error, timerRef, intervals,
                 retryCount, lastError, result, formData, xhrStatus, rejection, ghostVars>>

(* ---- the transport ---- *)
InFlight(a) == readyState[a] \in {"OPENED", "HEADERS_RECEIVED", "LOADING"}

(* resolve() and reject() settle a promise only while it is pending. *)
Resolve(p) == IF p = "pending" THEN "resolved" ELSE p
Reject(p) == IF p = "pending" THEN "rejected" ELSE p

(* IsNewWorkout without the look-up in processedWorkouts *)
IsNewWorkoutNoLookup(processed, f) == f.id # 0

(* useWorkout.ts 711: the test that guards addStreamingWorkout *)
IsNewWorkout(processed, f) == f.id # 0 /\ f.id \notin processed

(* OnMessage without the try / catch around JSON.parse: a text that is not *)
(* JSON throws out of the callback.                                        *)
OnMessageParseThrows(f, st) ==
  IF f.type = "workout_chunk" /\ IsNewWorkout(st.processed, f)
    THEN [st EXCEPT !.processed = @ \cup {f.id},
                    !.workouts = Append(@, [id |-> f.id, variant |-> f.variant]),
                    !.progress = [@ EXCEPT !.current = Cardinality(st.processed \cup {f.id})]]
    ELSE IF f.type \in {"error", "notjson"}
      THEN [st EXCEPT !.threw = TRUE]
      ELSE st

(* useWorkout.ts 694-729: onMessage on one frame. st carries the state the *)
(* callback reads and writes; threw records the throw of line 725.         *)
OnMessage(f, st) ==
  IF f.type = "workout_chunk" /\ IsNewWorkout(st.processed, f)
    THEN [st EXCEPT !.processed = @ \cup {f.id},
                    !.workouts = Append(@, [id |-> f.id, variant |-> f.variant]),
                    !.progress = [@ EXCEPT !.current = Cardinality(st.processed \cup {f.id})]]
    ELSE IF f.type = "error"
      THEN [st EXCEPT !.threw = TRUE]
      ELSE st

(* sseClient.ts 204-212: the emit loop; an exception thrown by onMessage   *)
(* leaves the loop (and the event handler).                                *)
RECURSIVE EmitLoop(_, _)
EmitLoop(batch, st) ==
  IF batch = <<>> \/ st.threw THEN st
  ELSE EmitLoop(Tail(batch), OnMessage(Head(batch), st))

Emit(a, batch) ==
  EmitLoop(batch, [processed |-> processedWorkouts[a], workouts |-> streamingWorkouts,
                   progress |-> progress, threw |-> FALSE])

(* History of an attempt, kept while generateProgram awaits its outcome:   *)
(* whether an error payload was received, and which transport event        *)
(* settled the promise of the executor.                                    *)
NoteErrorPayload(a, threw) ==
  errorPayload' = [errorPayload EXCEPT ![a] = @ \/ (threw /\ promise[a] = "pending")]

NoteSettled(a, event) ==
  settledBy' = [settledBy EXCEPT ![a] =
                  IF promise[a] = "pending" /\ promise'[a] # "pending" THEN event ELSE @]

(* The callbacks made by one task: onOpen (sseClient.ts 185), onClose      *)
(* (218, 230), onError (245), onMessage (209).                             *)
Called(a, open, close, err, msgs) ==
  callbacks' = [callbacks EXCEPT ![a] =
    [@ EXCEPT !.onOpen = @ + open, !.onClose = @ + close, !.onError = @ + err,
              !.afterAbort = @ \/ (callbacks[a].aborted /\ (msgs > 0 \/ err > 0)),
              !.afterReject = @ \/ (promise[a] = "rejected" /\ msgs > 0)]]

(* xhr.abort() on a request in flight (sseClient.ts 172-175): the DONE     *)
(* readystatechange calls onClose (218), then the abort event calls it     *)
(* again (230).                                                            *)
CalledOnAbort(a) ==
  callbacks' = [callbacks EXCEPT ![a] = [@ EXCEPT !.onClose = @ + 2, !.aborted = TRUE]]

(* sseClient.ts 178-186: readystatechange with readyState HEADERS_RECEIVED *)
XhrHeadersReceived(a, st) ==
  /\ MicrotasksDrained
  /\ readyState[a] = "OPENED"
  /\ readyState' = [readyState EXCEPT ![a] = "HEADERS_RECEIVED"]
  /\ xhrStatus' = [xhrStatus EXCEPT ![a] = st]
  /\ IF st # HTTP_OK
       THEN /\ promise' = [promise EXCEPT ![a] = Reject(@)]
            /\ rejection' = [rejection EXCEPT ![a] =
                               IF promise[a] = "pending" THEN HttpErrorMsg(st) ELSE @]
            /\ UNCHANGED stage
       ELSE /\ stage' = "streaming"
            /\ UNCHANGED <<promise, rejection>>
  /\ NoteSettled(a, "status")
  /\ Called(a, IF st = HTTP_OK THEN 1 ELSE 0, 0, 0, 0)
  /\ UNCHANGED <<libVars, isGenerating, progress, streamingWorkouts, error, abortControllerRef,
                 timerRef, intervals, jobVars, processedWorkouts, timeoutId,
                 jobsStarted, errorPayload, cancelledJobs, delivered>>

(* The frames of a batch the emit loop hands to onMessage: all of them up *)
(* to the first one that makes onMessage throw.                           *)
RECURSIVE Handled(_)
Handled(batch) ==
  IF batch = <<>> THEN <<>>
  ELSE IF Head(batch).type = "error" THEN <<Head(batch)>>
  ELSE <<Head(batch)>> \o Handled(Tail(batch))

(* The record of the frames handed to onMessage, kept when keep is set. *)
NoteDelivered(batch, keep) ==
  delivered' = IF keep THEN delivered \o Handled(batch) ELSE delivered

(* sseClient.ts 188-214: readystatechange with readyState LOADING *)
XhrLoading(a, batch, keep) ==
  LET st == Emit(a, batch) IN
  /\ MicrotasksDrained
  /\ readyState[a] \in {"HEADERS_RECEIVED", "LOADING"}
  /\ readyState' = [readyState EXCEPT ![a] = "LOADING"]
  /\ processedWorkouts' = [processedWorkouts EXCEPT ![a] = st.processed]
  /\ streamingWorkouts' = st.workouts
  /\ progress' = st.progress
  /\ NoteErrorPayload(a, st.threw)
  /\ NoteDelivered(batch, keep)
  /\ Called(a, 0, 0, 0, Len(Handled(batch)))
  /\ UNCHANGED <<libVars, isGenerating, stage, error, abortControllerRef, timerRef, intervals,
                 jobVars, xhrStatus, promise, rejection, timeoutId,
                 jobsStarted, settledBy, cancelledJobs>>

(* sseClient.ts 188-220: readystatechange with readyState DONE at the end  *)
(* of the body; onClose (useWorkout.ts 734-736) clears the deadline timer. *)
XhrDone(a, batch, keep) ==
  LET st == Emit(a, batch) IN
  /\ MicrotasksDrained
  /\ readyState[a] \in {"HEADERS_RECEIVED", "LOADING"}
  /\ readyState' = [readyState EXCEPT ![a] = "DONE"]
  /\ processedWorkouts' = [processedWorkouts EXCEPT ![a] = st.processed]
  /\ streamingWorkouts' = st.workouts
  /\ progress' = st.progress
  /\ NoteErrorPayload(a, st.threw)
  /\ IF st.threw
       THEN UNCHANGED <<promise, timeoutId>>
       ELSE /\ timeoutId' = [timeoutId EXCEPT ![a] = FALSE]
            /\ promise' = [promise EXCEPT ![a] = Resolve(@)]
  /\ NoteSettled(a, "eof")
  /\ NoteDelivered(batch, keep)
  /\ Called(a, 0, IF st.threw THEN 0 ELSE 1, 0, Len(Handled(batch)))
  /\ UNCHANGED <<libVars, isGenerating, stage, error, abortControllerRef, timerRef, intervals,
                 jobVars, xhrStatus, rejection, jobsStarted, cancelledJobs>>

(* A network failure of a request in flight: readystatechange with DONE    *)
(* (sseClient.ts 188-220, no new frame: onClose, resolve), then the error  *)
(* event (223-226: reject).                                                *)
XhrError(a) ==
  /\ MicrotasksDrained
  /\ InFlight(a)
  /\ readyState' = [readyState EXCEPT ![a] = "DONE"]
  /\ timeoutId' = [timeoutId EXCEPT ![a] = FALSE]
  /\ promise' = [promise EXCEPT ![a] = Reject(Resolve(@))]
  /\ rejection' = [rejection EXCEPT ![a] =
                     IF Resolve(promise[a]) = "pending" THEN MsgNetwork ELSE @]
  /\ NoteSettled(a, "error")
  /\ Called(a, 0, 1, 0, 0)
  /\ UNCHANGED <<libVars, hookVars, jobVars, xhrStatus, processedWorkouts,
                 jobsStarted, errorPayload, cancelledJobs, delivered>>

(* controller.abort() runs the listener of sseClient.ts 170-176, and       *)
(* xhr.abort() dispatches events only for a request in flight (a second    *)
(* abort finds the request DONE): readystatechange with DONE (sseClient.ts *)
(* 188-220: onClose, resolve), then the abort event (228-232).             *)
AbortFires(a) == InFlight(a)

(* useWorkout.ts 673: the deadline timer fires, controller.abort(). *)
TimeoutFires(a) ==
  /\ MicrotasksDrained
  /\ timeoutId[a]
  /\ timeoutId' = [timeoutId EXCEPT ![a] = FALSE]
  /\ IF AbortFires(a)
       THEN /\ readyState' = [readyState EXCEPT ![a] = "DONE"]
            /\ promise' = [promise EXCEPT ![a] = Resolve(@)]
            /\ CalledOnAbort(a)
       ELSE UNCHANGED <<readyState, promise, callbacks>>
  /\ NoteSettled(a, "timeout")
  /\ UNCHANGED <<libVars, hookVars, jobVars, xhrStatus, rejection, processedWorkouts,
                 jobsStarted, errorPayload, cancelledJobs, delivered>>

(* useWorkout.ts 787-799: cancel() *)
Cancel ==
  LET a == abortControllerRef IN
  /\ IF a # NoAttempt /\ AbortFires(a)
       THEN /\ readyState' = [readyState EXCEPT ![a] = "DONE"]
            /\ promise' = [promise EXCEPT ![a] = Resolve(@)]
            /\ timeoutId' = [timeoutId EXCEPT ![a] = FALSE]
            /\ NoteSettled(a, "cancel")
            /\ CalledOnAbort(a)
       ELSE UNCHANGED <<readyState, promise, timeoutId, settledBy, callbacks>>
  /\ abortControllerRef' = NoAttempt
  /\ intervals' = ClearInterval
  /\ timerRef' = NoTimer
  /\ isGenerating' = FALSE
  /\ stage' = "idle"
  /\ error' = MsgCancelled
  /\ cancelledJobs' = cancelledJobs \cup {j \in Jobs : pc[j] \notin {"none", "done"}}
  /\ UNCHANGED <<libVars, progress, streamingWorkouts, jobVars, xhrStatus, rejection,
                 processedWorkouts, jobsStarted, errorPayload, delivered>>

(* createSSEClientWithPost returned normally (sseClient.ts 235, 250):      *)
(* the success path of generateProgram, useWorkout.ts 739-749.             *)
StreamResolved(j) ==
  LET a == CurrentAttempt(j) IN
  /\ pc[j] = "stream"
  /\ promise[a] = "resolved"
  /\ stage' = "complete"
  /\ intervals' = ClearInterval
  /\ isGenerating' = FALSE
  /\ result' = [result EXCEPT ![j] =
       [settled |-> TRUE, success |-> TRUE,
        workoutsCreated |-> Cardinality(processedWorkouts[a]), error |-> Null]]
  /\ pc' = [pc EXCEPT ![j] = "done"]
  /\ UNCHANGED <<libVars, progress, streamingWorkouts, error, abortControllerRef, timerRef,
                 retryCount, lastError, formData, xhrVars, ghostVars>>

(* The promise of the executor was rejected: the catch of sseClient.ts     *)
(* 236-249 calls onError (useWorkout.ts 730-733), which clears the timer   *)
(* and rethrows into the catch of generateProgram.                         *)
StreamRejected(j) ==
  LET a == CurrentAttempt(j) IN
  /\ pc[j] = "stream"
  /\ promise[a] = "rejected"
  /\ timeoutId' = [timeoutId EXCEPT ![a] = FALSE]
  /\ Catch(j, rejection[a])
  /\ Called(a, 0, 0, 1, 0)
  /\ UNCHANGED <<libVars, progress, abortControllerRef, timerRef, formData,
                 readyState, xhrStatus, promise, rejection, processedWorkouts,
                 jobsStarted, settledBy, errorPayload, cancelledJobs, delivered>>

(* ---- the callers ---- *)
(* builder.tsx 508-522 and AIProgramWriter.tsx 535-539: the generate       *)
(* button is offered only while isGenerating is false.                     *)
PressGenerate(j, w, d) ==
  /\ MicrotasksDrained
  /\ ~isGenerating
  /\ GenerateProgram(j, w, d)

(* builder.tsx 525-563 and AIProgramWriter.tsx 455-464: the cancel button  *)
(* is offered only while isGenerating is true.                             *)
PressCancel ==
  /\ MicrotasksDrained
  /\ isGenerating
  /\ Cancel

(* The body of a response, as batches of frames: a response that is not    *)
(* 200 carries an error document, which holds no event-stream frame.       *)
Body(a) == IF xhrStatus[a] = HTTP_OK THEN Batches ELSE {<<>>}

ReceiveLoading(a) == \E batch \in Body(a) : XhrLoading(a, batch, FALSE)

ReceiveDone(a) == \E batch \in Body(a) : XhrDone(a, batch, FALSE)

Next ==
  \/ \E j \in SingleCall, w \in Weeks, d \in Days : PressGenerate(j, w, d)
  \/ \E j \in Jobs : DelayElapsed(j)
  \/ \E j \in Jobs : GetSessionNoToken(j)
  \/ \E j \in Jobs : GetSessionToken(j)
  \/ \E a \in Attempts, st \in Statuses : XhrHeadersReceived(a, st)
  \/ \E a \in Attempts : ReceiveLoading(a)
  \/ \E a \in Attempts : ReceiveDone(a)
  \/ \E a \in Attempts : XhrError(a)
  \/ \E a \in Attempts : TimeoutFires(a)
  \/ PressCancel
  \/ \E j \in Jobs : StreamResolved(j)
  \/ \E j \in Jobs : StreamRejected(j)

Spec == Init /\ [][Next]_vars

(* The scheduling of one call: the credential fetch returns, the retry    *)
(* delay elapses, a settled promise resumes generateProgram, and every     *)
(* opened request ends, by the end of its body, a network failure or its   *)
(* deadline timer.                                                         *)
Fairness ==
  /\ \A j \in SingleCall :
       /\ WF_vars(GetSessionToken(j) \/ GetSessionNoToken(j))
       /\ WF_vars(DelayElapsed(j))
       /\ WF_vars(StreamResolved(j))
       /\ WF_vars(StreamRejected(j))
  /\ \A a \in SingleCall \X Tries :
       WF_vars(ReceiveDone(a) \/ XhrError(a) \/ TimeoutFires(a))

SpecLive == Init /\ [][Next]_vars /\ Fairness

(* ---- one call whose responses are 200: every payload type, one frame   *)
(* per transition, and the record of the frames handed to onMessage ---- *)
DeliverLoading(a, f) ==
  /\ Len(delivered) < MaxFrames
  /\ XhrLoading(a, <<f>>, TRUE)

DeliverDone(a, batch) ==
  /\ Len(delivered) + Len(batch) <= MaxFrames
  /\ XhrDone(a, batch, TRUE)

NextDelivery ==
  \/ \E j \in SingleCall, w \in Weeks, d \in Days : PressGenerate(j, w, d)
  \/ \E j \in Jobs : GetSessionToken(j)
  \/ \E a \in Attempts : XhrHeadersReceived(a, HTTP_OK)
  \/ \E a \in Attempts, f \in AllFrames : DeliverLoading(a, f)
  \/ \E a \in Attempts, batch \in {<<>>} \cup {<<f>> : f \in AllFrames} : DeliverDone(a, batch)
  \/ \E j \in Jobs : StreamResolved(j)

SpecDelivery == Init /\ [][NextDelivery]_vars

(* ---- the retry path when an error response carries frames ---- *)
StaleBatches == {<<>>} \cup {<<f>> : f \in LifecycleFrames}

NextStale ==
  \/ \E j \in SingleCall, w \in Weeks, d \in Days : PressGenerate(j, w, d)
  \/ \E j \in Jobs : DelayElapsed(j)
  \/ \E j \in Jobs : GetSessionToken(j)
  \/ \E a \in Attempts, st \in {200, 503} : XhrHeadersReceived(a, st)
  \/ \E a \in Attempts, batch \in StaleBatches : XhrLoading(a, batch, FALSE)
  \/ \E a \in Attempts, batch \in StaleBatches : XhrDone(a, batch, FALSE)
  \/ \E j \in Jobs : StreamResolved(j)
  \/ \E j \in Jobs : StreamRejected(j)

SpecStale == Init /\ [][NextStale]_vars

(* ---- the hook called by any client: generateProgram and cancel() at   *)
(* any time, two calls, responses 200 or 500 ---- *)
CallGenerateProgram(j, w, d) ==
  /\ MicrotasksDrained
  /\ GenerateProgram(j, w, d)

CallCancel ==
  /\ MicrotasksDrained
  /\ Cancel

HookWeeks == {1}
HookStatuses == {200, 500}
HookBatches == {<<>>} \cup {<<Payload("workout_chunk", i, "v1", Null)>> : i \in UnitIds}

NextHook ==
  \/ \E j \in Jobs, w \in HookWeeks, d \in Days : CallGenerateProgram(j, w, d)
  \/ CallCancel
  \/ \E j \in Jobs : GetSessionToken(j)
  \/ \E a \in Attempts, st \in HookStatuses : XhrHeadersReceived(a, st)
  \/ \E a \in Attempts, batch \in HookBatches : XhrLoading(a, batch, FALSE)
  \/ \E a \in Attempts, batch \in HookBatches : XhrDone(a, batch, FALSE)
  \/ \E j \in Jobs : StreamResolved(j)
  \/ \E j \in Jobs : StreamRejected(j)

SpecHook == Init /\ [][NextHook]_vars

(* ---- one call whose response has any of a few statuses, successful or *)
(* not ---- *)
OpenStatuses == {200, 201, 204, 404}

NextOpen ==
  \/ \E j \in SingleCall, w \in Weeks, d \in Days : PressGenerate(j, w, d)
  \/ \E j \in Jobs : GetSessionToken(j)
  \/ \E a \in Attempts, st \in OpenStatuses : XhrHeadersReceived(a, st)
  \/ \E a \in Attempts, batch \in StaleBatches : XhrLoading(a, batch, FALSE)
  \/ \E a \in Attempts, batch \in StaleBatches : XhrDone(a, batch, FALSE)
  \/ \E j \in Jobs : StreamResolved(j)
  \/ \E j \in Jobs : StreamRejected(j)

SpecOpen == Init /\ [][NextOpen]_vars

(***************************************************************************)
(* Response text                                                           *)
(*                                                                         *)
(* A string is a sequence of pieces, each piece a fixed piece of text: the *)
(* newline, a space, the field names "data:" and "event:", and two JSON    *)
(* texts, "status" for {"type":"status"} and "error" for {"type":"error"}. *)
(***************************************************************************)
NL == "\n"
SP == " "
Whitespace == {NL, SP}

(* String.prototype.trim *)
RECURSIVE TrimStart(_)
TrimStart(s) ==
  IF s # <<>> /\ Head(s) \in Whitespace THEN TrimStart(Tail(s)) ELSE s

RECURSIVE TrimEnd(_)
TrimEnd(s) ==
  IF s # <<>> /\ s[Len(s)] \in Whitespace THEN TrimEnd(SubSeq(s, 1, Len(s) - 1)) ELSE s

Trim(s) == TrimEnd(TrimStart(s))

(* String.prototype.split: the parts between the matches of the separator *)
(* found from left to right, cur being the part under construction.       *)
RECURSIVE SplitFrom(_, _, _)
SplitFrom(s, sep, cur) ==
  IF s = <<>> THEN <<cur>>
  ELSE IF Len(s) >= Len(sep) /\ SubSeq(s, 1, Len(sep)) = sep
    THEN <<cur>> \o SplitFrom(SubSeq(s, Len(sep) + 1, Len(s)), sep, <<>>)
    ELSE SplitFrom(Tail(s), sep, Append(cur, Head(s)))

Split(s, sep) == SplitFrom(s, sep, <<>>)

StartsWith(line, field) == line # <<>> /\ Head(line) = field

(* sseClient.ts 115-130: one pass of the loop of parseSSEMessage over a    *)
(* line (the id: and retry: fields do not touch event.data).               *)
ParseLine(event, line) ==
  IF StartsWith(line, "event:")
    THEN [event EXCEPT !.event = Trim(Tail(line))]
  ELSE IF StartsWith(line, "data:")
    THEN LET dataLine == Trim(Tail(line)) IN
         [event EXCEPT !.data = IF @ # <<>> THEN @ \o <<NL>> \o dataLine ELSE dataLine]
  ELSE event

RECURSIVE ParseLines(_, _)
ParseLines(event, lines) ==
  IF lines = <<>> THEN event
  ELSE ParseLines(ParseLine(event, Head(lines)), Tail(lines))

(* sseClient.ts 109-134: parseSSEMessage; isNull stands for the null result *)
parseSSEMessage(message) ==
  LET event == ParseLines([isNull |-> FALSE, event |-> <<>>, data |-> <<>>],
                          Split(message, <<NL>>))
  IN IF event.data # <<>> THEN event ELSE NoEvent

(* ---- parseSSEMessage on every message of a few lines ---- *)
MaxLines == 3
MessageLines ==
  {<<>>, <<"data:">>, <<"data:", SP>>, <<"data:", "status">>, <<"data:", SP, "status", SP>>,
   <<"data:", "error">>, <<"event:", "status">>, <<SP, "data:", "status">>}

RECURSIVE JoinLines(_)
JoinLines(ls) ==
  IF ls = <<>> THEN <<>>
  ELSE IF Len(ls) = 1 THEN ls[1]
  ELSE ls[1] \o <<NL>> \o JoinLines(Tail(ls))

Messages == {JoinLines(ls) : ls \in UNION {[1..n -> MessageLines] : n \in 1..MaxLines}}

InitParse ==
  /\ HookInit
  /\ text \in Messages
  /\ libPc = "called"
  /\ lastIndex = 0 /\ buffer = <<>> /\ emitted = <<>> /\ consumed = <<>>
  /\ fetchState = "none" /\ fetchCalls = NoFetchCalls
  /\ parsed = NoEvent /\ daysOfWeek = <<>> /\ daysOfWeekNumbers = <<>>

Parse ==
  /\ libPc = "called"
  /\ parsed' = parseSSEMessage(text)
  /\ libPc' = "returned"
  /\ UNCHANGED <<hookVars, jobVars, xhrVars, ghostVars, text, lastIndex, buffer, emitted, consumed,
                 fetchState, fetchCalls, daysOfWeek, daysOfWeekNumbers>>

NextParse == Parse

SpecParse == InitParse /\ [][NextParse]_vars

(* ---- the split of the response text into messages ---- *)
MaxText == 6
TextUnits == {<<NL>>, <<"data:", "status">>, <<"data:", "error">>}

RECURSIVE Flatten(_)
Flatten(us) == IF us = <<>> THEN <<>> ELSE Head(us) \o Flatten(Tail(us))

Texts == {Flatten(us) : us \in UNION {[1..n -> TextUnits] : n \in 0..MaxText}}

(* Feed with the messages of a chunk taken from the last to the first *)
FeedNewestFirst(buf, newData) ==
  LET messages == Split(buf \o newData, <<NL, NL>>)
  IN [messages |-> [i \in 1..(Len(messages) - 1) |-> messages[Len(messages) - i]],
      buffer |-> messages[Len(messages)]]

(* sseClient.ts 197-202 (and 70-75): append the new data to the buffer,    *)
(* split at the blank lines, keep the last part as the new buffer.         *)
Feed(buf, newData) ==
  LET messages == Split(buf \o newData, <<NL, NL>>)
  IN [messages |-> SubSeq(messages, 1, Len(messages) - 1),
      buffer |-> messages[Len(messages)]]

(* useWorkout.ts 697-702, 724-725: onMessage throws when the data of the   *)
(* event is the JSON text of an error payload.                             *)
Throws(event) == event.data = <<"error">>

(* sseClient.ts 204-212 (and 78-85): the emit loop over the messages of a  *)
(* chunk; acc holds the events passed to onMessage so far, and the loop    *)
(* ends at the first event that makes onMessage throw.                     *)
RECURSIVE EmitMessages(_, _)
EmitMessages(messages, acc) ==
  IF messages = <<>> THEN [events |-> acc, threw |-> FALSE]
  ELSE LET message == Head(messages)
           event == parseSSEMessage(message)
       IN IF Trim(message) # <<>> /\ ~event.isNull
            THEN IF Throws(event)
                   THEN [events |-> Append(acc, event), threw |-> TRUE]
                   ELSE EmitMessages(Tail(messages), Append(acc, event))
            ELSE EmitMessages(Tail(messages), acc)

InitFraming ==
  /\ HookInit
  /\ text \in Texts
  /\ lastIndex = 0 /\ buffer = <<>> /\ emitted = <<>> /\ consumed = <<>>
  /\ fetchState = "none" /\ fetchCalls = NoFetchCalls
  /\ parsed = NoEvent /\ daysOfWeek = <<>> /\ daysOfWeekNumbers = <<>>
  /\ libPc = "idle"

(* ReadyStateChangeText without the substring(lastIndex) of line 193: the *)
(* whole responseText is appended to the buffer at every transition.       *)
ReadyStateChangeTextWhole(n) ==
  LET newData == SubSeq(text, 1, lastIndex + n)
      fed == Feed(buffer, newData)
  IN /\ lastIndex + n <= Len(text)
     /\ lastIndex' = lastIndex + n
     /\ buffer' = fed.buffer
     /\ emitted' = EmitMessages(fed.messages, emitted).events
     /\ consumed' = consumed \o newData
     /\ UNCHANGED <<hookVars, jobVars, xhrVars, ghostVars, text, fetchState, fetchCalls,
                    parsed, daysOfWeek, daysOfWeekNumbers, libPc>>

(* sseClient.ts 188-214: readystatechange with readyState LOADING or DONE  *)
(* when n more pieces of the response text have arrived.                   *)
ReadyStateChangeText(n) ==
  LET newData == SubSeq(text, lastIndex + 1, lastIndex + n)
      fed == Feed(buffer, newData)
  IN /\ lastIndex + n <= Len(text)
     /\ lastIndex' = lastIndex + n
     /\ buffer' = fed.buffer
     /\ emitted' = EmitMessages(fed.messages, emitted).events
     /\ consumed' = consumed \o newData
     /\ UNCHANGED <<hookVars, jobVars, xhrVars, ghostVars, text, fetchState, fetchCalls,
                    parsed, daysOfWeek, daysOfWeekNumbers, libPc>>

NextFraming == \E n \in 1..(2 * MaxText) : ReadyStateChangeText(n)

SpecFraming == InitFraming /\ [][NextFraming]_vars

(* ---- one call whose response is 200, followed from the text of the    *)
(* body to the state of the hook. The pieces "w1" and "w2" are the JSON    *)
(* texts of the workout_chunk payloads of units 1 and 2, "w1b" the one of  *)
(* unit 1 with another content. ---- *)
OrderUnits ==
  {<<NL>>, <<"data:", "w1", NL, NL>>, <<"data:", "w1b", NL, NL>>,
   <<"data:", "w2", NL, NL>>, <<"data:", "error", NL, NL>>}
OrderTexts == {Flatten(us) : us \in UNION {[1..n -> OrderUnits] : n \in 0..MaxFrames}}

(* useWorkout.ts 696-702: JSON.parse(event.data), a text that is not JSON  *)
(* making onMessage return.                                                *)
JsonParse(data) ==
  IF data = <<"w1">> THEN Payload("workout_chunk", 1, "v1", Null)
  ELSE IF data = <<"w1b">> THEN Payload("workout_chunk", 1, "v2", Null)
  ELSE IF data = <<"w2">> THEN Payload("workout_chunk", 2, "v1", Null)
  ELSE IF data = <<"status">> THEN Payload("status", 0, "v1", Null)
  ELSE IF data = <<"error">> THEN Payload("error", 0, "v1", Null)
  ELSE Payload("notjson", 0, "v1", Null)

InitOrder ==
  /\ HookInit
  /\ text \in OrderTexts
  /\ lastIndex = 0 /\ buffer = <<>> /\ emitted = <<>> /\ consumed = <<>>
  /\ fetchState = "none" /\ fetchCalls = NoFetchCalls
  /\ parsed = NoEvent /\ daysOfWeek = <<>> /\ daysOfWeekNumbers = <<>>
  /\ libPc = "idle"

(* sseClient.ts 188-214 with useWorkout.ts 694-729: readystatechange with  *)
(* readyState LOADING when n more pieces of the body have arrived; the     *)
(* events of the complete messages are handed to onMessage.                *)
TextReceived(a, n, state) ==
  LET newData == SubSeq(text, lastIndex + 1, lastIndex + n)
      fed == Feed(buffer, newData)
      out == EmitMessages(fed.messages, <<>>)
      batch == [i \in DOMAIN out.events |-> JsonParse(out.events[i].data)]
      st == Emit(a, batch)
  IN /\ MicrotasksDrained
     /\ readyState[a] \in {"HEADERS_RECEIVED", "LOADING"}
     /\ lastIndex + n <= Len(text)
     /\ lastIndex' = lastIndex + n
     /\ buffer' = fed.buffer
     /\ emitted' = emitted \o out.events
     /\ consumed' = consumed \o newData
     /\ readyState' = [readyState EXCEPT ![a] = state]
     /\ processedWorkouts' = [processedWorkouts EXCEPT ![a] = st.processed]
     /\ streamingWorkouts' = st.workouts
     /\ progress' = st.progress
     /\ NoteErrorPayload(a, st.threw)
     /\ NoteDelivered(batch, TRUE)
     /\ IF state = "DONE" /\ ~st.threw
          THEN /\ timeoutId' = [timeoutId EXCEPT ![a] = FALSE]
               /\ promise' = [promise EXCEPT ![a] = Resolve(@)]
          ELSE UNCHANGED <<promise, timeoutId>>
     /\ NoteSettled(a, "eof")
     /\ Called(a, 0, IF state = "DONE" /\ ~st.threw THEN 1 ELSE 0, 0, Len(batch))
     /\ UNCHANGED <<isGenerating, stage, error, abortControllerRef, timerRef, intervals,
                    jobVars, xhrStatus, rejection, jobsStarted, cancelledJobs,
                    text, fetchState, fetchCalls, parsed, daysOfWeek, daysOfWeekNumbers,
                    libPc>>

TextLoading(a, n) ==
  /\ n >= 1
  /\ TextReceived(a, n, "LOADING")

(* sseClient.ts 188-220: readystatechange with readyState DONE, the rest   *)
(* of the body having arrived.                                             *)
TextDone(a) ==
  /\ readyState[a] # "DONE"
  /\ TextReceived(a, Len(text) - lastIndex, "DONE")

NextOrder ==
  \/ \E j \in SingleCall, w \in HookWeeks, d \in Days : PressGenerate(j, w, d)
  \/ \E j \in Jobs : GetSessionToken(j)
  \/ \E a \in Attempts : XhrHeadersReceived(a, HTTP_OK)
  \/ \E a \in Attempts, n \in 1..(4 * MaxFrames) : TextLoading(a, n)
  \/ \E a \in Attempts : TextDone(a)
  \/ \E j \in Jobs : StreamResolved(j)

SpecOrder == InitOrder /\ [][NextOrder]_vars

(* ---- createSSEClient: fetch and the reader of the response body ---- *)
InitFetch ==
  /\ HookInit
  /\ text \in Texts
  /\ lastIndex = 0 /\ buffer = <<>> /\ emitted = <<>> /\ consumed = <<>>
  /\ fetchState = "fetching" /\ fetchCalls = NoFetchCalls
  /\ parsed = NoEvent /\ daysOfWeek = <<>> /\ daysOfWeekNumbers = <<>>
  /\ libPc = "idle"

FetchCalled(open, close, err) ==
  fetchCalls' = [onOpen |-> fetchCalls.onOpen + open,
                 onClose |-> fetchCalls.onClose + close,
                 onError |-> fetchCalls.onError + err]

FetchUnchanged == UNCHANGED <<hookVars, jobVars, xhrVars, ghostVars, text, parsed,
                              daysOfWeek, daysOfWeekNumbers, libPc>>

(* sseClient.ts 34-54: fetch resolved with a response that is ok and has a *)
(* body: onOpen, then the read loop.                                       *)
FetchOk ==
  /\ fetchState = "fetching"
  /\ fetchState' = "reading"
  /\ FetchCalled(1, 0, 0)
  /\ UNCHANGED <<lastIndex, buffer, emitted, consumed>>
  /\ FetchUnchanged

(* sseClient.ts 34-51, 91-101: fetch rejected with a network error, or the *)
(* response is not ok, or it has no body: the catch calls onError.         *)
FetchFailed ==
  /\ fetchState = "fetching"
  /\ fetchState' = "failed"
  /\ FetchCalled(0, 0, 1)
  /\ UNCHANGED <<lastIndex, buffer, emitted, consumed>>
  /\ FetchUnchanged

(* sseClient.ts 34-43, 91-97: the signal was aborted before the response:  *)
(* fetch rejects with an AbortError and the catch calls onClose.           *)
FetchAborted ==
  /\ fetchState = "fetching"
  /\ fetchState' = "aborted"
  /\ FetchCalled(0, 1, 0)
  /\ UNCHANGED <<lastIndex, buffer, emitted, consumed>>
  /\ FetchUnchanged

(* sseClient.ts 62-86: reader.read() gave a chunk of n pieces. When        *)
(* onMessage throws, the finally of 87-90 calls onClose and the catch of   *)
(* 91-101 calls onError with the exception.                                *)
ReaderRead(n) ==
  LET newData == SubSeq(text, lastIndex + 1, lastIndex + n)
      fed == Feed(buffer, newData)
      out == EmitMessages(fed.messages, emitted)
  IN /\ fetchState = "reading"
     /\ lastIndex + n <= Len(text)
     /\ lastIndex' = lastIndex + n
     /\ buffer' = fed.buffer
     /\ emitted' = out.events
     /\ consumed' = consumed \o newData
     /\ IF out.threw
          THEN fetchState' = "threw" /\ FetchCalled(0, 1, 1)
          ELSE UNCHANGED <<fetchState, fetchCalls>>
     /\ FetchUnchanged

(* sseClient.ts 63-67, 87-90: the body ended: break, finally onClose. *)
ReaderDone ==
  /\ fetchState = "reading"
  /\ lastIndex = Len(text)
  /\ fetchState' = "closed"
  /\ FetchCalled(0, 1, 0)
  /\ UNCHANGED <<lastIndex, buffer, emitted, consumed>>
  /\ FetchUnchanged

(* sseClient.ts 63, 87-101: reader.read() rejected with a network error:   *)
(* the finally calls onClose, then the catch calls onError.                *)
ReaderFailed ==
  /\ fetchState = "reading"
  /\ fetchState' = "readFailed"
  /\ FetchCalled(0, 1, 1)
  /\ UNCHANGED <<lastIndex, buffer, emitted, consumed>>
  /\ FetchUnchanged

(* sseClient.ts 63, 87-97: the signal was aborted during the read loop:    *)
(* reader.read() rejects with an AbortError, the finally calls onClose and *)
(* the catch, which takes the AbortError branch, calls onClose.            *)
ReaderAborted ==
  /\ fetchState = "reading"
  /\ fetchState' = "readAborted"
  /\ FetchCalled(0, 2, 0)
  /\ UNCHANGED <<lastIndex, buffer, emitted, consumed>>
  /\ FetchUnchanged

NextFetch ==
  \/ FetchOk
  \/ FetchFailed
  \/ FetchAborted
  \/ \E n \in 1..(2 * MaxText) : ReaderRead(n)
  \/ ReaderDone
  \/ ReaderFailed
  \/ ReaderAborted

SpecFetch == InitFetch /\ [][NextFetch]_vars

(***************************************************************************)
(* The weekday names of the form (useWorkout.ts 595-620). A day name is a  *)
(* sequence of characters.                                                 *)
(***************************************************************************)
LowerLetters == <<"a", "b", "c", "d", "e", "f", "g", "h", "i", "j", "k", "l", "m", "n", "o", "p", "q", "r", "s", "t", "u", "v", "w", "x", "y", "z">>
UpperLetters == <<"A", "B", "C", "D", "E", "F", "G", "H", "I", "J", "K", "L", "M", "N", "O", "P", "Q", "R", "S", "T", "U", "V", "W", "X", "Y", "Z">>

(* String.prototype.toUpperCase and toLowerCase on one character *)
ToUpperChar(c) ==
  IF \E i \in DOMAIN LowerLetters : LowerLetters[i] = c
    THEN UpperLetters[CHOOSE i \in DOMAIN LowerLetters : LowerLetters[i] = c]
    ELSE c
ToLowerChar(c) ==
  IF \E i \in DOMAIN UpperLetters : UpperLetters[i] = c
    THEN LowerLetters[CHOOSE i \in DOMAIN UpperLetters : UpperLetters[i] = c]
    ELSE c
ToLowerCase(w) == [i \in DOMAIN w |-> ToLowerChar(w[i])]

(* useWorkout.ts 607-608: day.charAt(0).toUpperCase() +                    *)
(* day.slice(1).toLowerCase()                                              *)
Capitalize(day) ==
  [i \in DOMAIN day |-> IF i = 1 THEN ToUpperChar(day[i]) ELSE ToLowerChar(day[i])]

Sunday == <<"S", "u", "n", "d", "a", "y">>
Monday == <<"M", "o", "n", "d", "a", "y">>
Tuesday == <<"T", "u", "e", "s", "d", "a", "y">>
Wednesday == <<"W", "e", "d", "n", "e", "s", "d", "a", "y">>
Thursday == <<"T", "h", "u", "r", "s", "d", "a", "y">>
Friday == <<"F", "r", "i", "d", "a", "y">>
Saturday == <<"S", "a", "t", "u", "r", "d", "a", "y">>

(* programConfig.ts 149-157: dayNameToNumber *)
dayNameToNumber ==
  (Sunday :> 0) @@ (Monday :> 1) @@ (Tuesday :> 2) @@ (Wednesday :> 3) @@
  (Thursday :> 4) @@ (Friday :> 5) @@ (Saturday :> 6)

(* dayNameToNumber is an object literal: a property it does not own is    *)
(* looked up in Object.prototype, where "constructor" is the function      *)
(* Object.                                                                 *)
Constructor == <<"c", "o", "n", "s", "t", "r", "u", "c", "t", "o", "r">>
InheritedKeys == {Constructor}

Num(n) == [type |-> "number", value |-> n]
ObjectFunction == [type |-> "function", value |-> 0]
Undefined == [type |-> "undefined", value |-> 0]
NullValue == [type |-> "null", value |-> 0]

(* dayNameToNumber[key] *)
Lookup(key) ==
  IF key \in DOMAIN dayNameToNumber THEN Num(dayNameToNumber[key])
  ELSE IF key \in InheritedKeys THEN ObjectFunction
  ELSE Undefined

(* useWorkout.ts 597-614: the function mapped over formData.daysOfWeek,    *)
(* whose entries are strings                                               *)
DayToNumber(day) ==
  IF day = <<>> THEN NullValue
  ELSE IF Lookup(day) # Undefined THEN Lookup(day)
  ELSE IF Lookup(Capitalize(day)) # Undefined THEN Lookup(Capitalize(day))
  ELSE NullValue

IsNotNull(v) == v # NullValue

(* useWorkout.ts 596-620: daysOfWeekNumbers *)
DaysOfWeekNumbers(days) ==
  LET mapped == [i \in DOMAIN days |-> DayToNumber(days[i])]
      kept == SelectSeq(mapped, IsNotNull)
  IN IF Len(kept) = 0 THEN <<Num(1), Num(3), Num(5)>> ELSE kept

MaxDays == 2
DayEntries ==
  {Monday, <<"m", "o", "n", "d", "a", "y">>, <<"M", "O", "N", "D", "A", "Y">>, <<"s", "U", "N", "D", "A", "Y">>,
   Wednesday, Friday, <<>>, <<"F", "u", "n", "d", "a", "y">>, <<"1">>, Constructor}
DayLists == UNION {[1..n -> DayEntries] : n \in 0..MaxDays}

InitDays ==
  /\ HookInit
  /\ daysOfWeek \in DayLists
  /\ daysOfWeekNumbers = <<>>
  /\ libPc = "called"
  /\ text = <<>> /\ lastIndex = 0 /\ buffer = <<>> /\ emitted = <<>> /\ consumed = <<>>
  /\ fetchState = "none" /\ fetchCalls = NoFetchCalls /\ parsed = NoEvent

ConvertDays ==
  /\ libPc = "called"
  /\ daysOfWeekNumbers' = DaysOfWeekNumbers(daysOfWeek)
  /\ libPc' = "returned"
  /\ UNCHANGED <<hookVars, jobVars, xhrVars, ghostVars, text, lastIndex, buffer, emitted, consumed,
                 fetchState, fetchCalls, parsed, daysOfWeek>>

NextDays == ConvertDays

SpecDays == InitDays /\ [][NextDays]_vars

(***************************************************************************)
(* Properties                                                              *)
(***************************************************************************)
(* The requests job j has opened, and those whose promise was rejected. *)
Opens(j) == Cardinality({k \in Tries : readyState[<<j, k>>] # "UNSENT"})
Rejected(j) == Cardinality({k \in Tries : promise[<<j, k>>] = "rejected"})
Succeeded(j) == result[j].settled /\ result[j].success
GatewayMsgs == {HttpErrorMsg(503), HttpErrorMsg(504)}

(* The unit ids among the frames handed to onMessage, the ids listed in   *)
(* streamingWorkouts, and the first frame that carried a given id.        *)
IsChunk(f) == f.type = "workout_chunk" /\ f.id # 0
ChunkIds(d) == {d[i].id : i \in {k \in DOMAIN d : IsChunk(d[k])}}
ListedIds == {streamingWorkouts[i].id : i \in DOMAIN streamingWorkouts}
FirstIndex(d, id) ==
  CHOOSE i \in DOMAIN d :
    /\ IsChunk(d[i]) /\ d[i].id = id
    /\ \A k \in 1..(i - 1) : ~(IsChunk(d[k]) /\ d[k].id = id)

(* C1: a call opens at most MAX_RETRIES + 1 = 3 requests; it resolves     *)
(* success=false on a gateway-class failure only when 3 requests were     *)
(* opened and all 3 were rejected (exactly 2 retries), the stage then     *)
(* being error; and it resolves success=true after exactly as many        *)
(* retries as attempts failed (1 failure, then success: 1 retry).         *)
RetryCeiling ==
  [][\A j \in Jobs :
       /\ Opens(j)' <= MAX_RETRIES + 1
       /\ Succeeded(j)' => Opens(j)' = Rejected(j)' + 1
       /\ (~result[j].settled /\ result'[j].settled /\ result'[j].error \in GatewayMsgs)
            => /\ ~result'[j].success
               /\ Opens(j)' = MAX_RETRIES + 1
               /\ Rejected(j)' = MAX_RETRIES + 1
               /\ stage' = "error"]_vars

RetryCeilingWitness ==
  /\ result[1].settled /\ ~result[1].success
  /\ result[1].error = HttpErrorMsg(503)
  /\ Opens(1) = 3 /\ Rejected(1) = 3
  /\ stage = "error"

(* C2: once cancel() has aborted the open request of a call, the call     *)
(* does not resolve with success=true.                                    *)
CancelNeverSucceeds ==
  \A j \in Jobs : settledBy[CurrentAttempt(j)] = "cancel" => ~Succeeded(j)

(* C3: after cancel() was invoked on a call in flight, the stage stays    *)
(* idle until the next generateProgram call.                              *)
CancelledStaysIdle ==
  [][(stage = "idle" /\ cancelledJobs # {} /\ jobsStarted' = jobsStarted)
       => stage' = "idle"]_vars

(* C4: an attempt whose request was aborted by its deadline timer never   *)
(* makes the call resolve with success=true.                              *)
TimeoutNeverSucceeds ==
  \A j \in Jobs : settledBy[CurrentAttempt(j)] = "timeout" => ~Succeeded(j)

(* C5: a call never resolves with success=true from an attempt in which   *)
(* an error payload was received.                                         *)
ErrorPayloadNeverSucceeds ==
  \A j \in Jobs : errorPayload[CurrentAttempt(j)] => ~Succeeded(j)

(* C6: an attempt that ended in a network failure of the request is never *)
(* reported as a successful close.                                        *)
NetworkFailureNeverSucceeds ==
  \A j \in Jobs : settledBy[CurrentAttempt(j)] = "error" => ~Succeeded(j)

(* C11: once the signal of an invocation of createSSEClientWithPost was    *)
(* triggered with its request in flight, the request is over, onClose was  *)
(* invoked exactly once, and neither onMessage nor onError was invoked     *)
(* after the abort.                                                        *)
AbortClosesOnce ==
  \A a \in Attempts :
    callbacks[a].aborted
      => /\ readyState[a] = "DONE"
         /\ callbacks[a].onClose = 1
         /\ ~callbacks[a].afterAbort

(* C12: an invocation of createSSEClientWithPost whose response status is *)
(* not 200 invokes onError at most once (once generateProgram has resumed, *)
(* exactly once, with the error naming the status) and never invokes       *)
(* onOpen, onMessage or onClose.                                           *)
ErrorStatusOnlyOnError ==
  \A a \in Attempts :
    xhrStatus[a] \in Statuses \ {HTTP_OK}
      => /\ callbacks[a].onOpen = 0
         /\ callbacks[a].onClose = 0
         /\ ~callbacks[a].afterReject
         /\ callbacks[a].onError <= 1
         /\ rejection[a] = HttpErrorMsg(xhrStatus[a])
         /\ (a[1] \in Jobs /\ CurrentAttempt(a[1]) # a) => callbacks[a].onError = 1

(* C13: an invocation of createSSEClient invokes onClose at most once and *)
(* never both onError and onClose: a read failure ends with onError only,  *)
(* an abort during the read loop with one onClose and no onError.          *)
FetchOneTerminalCallback ==
  /\ fetchCalls.onClose <= 1
  /\ ~(fetchCalls.onError >= 1 /\ fetchCalls.onClose >= 1)
  /\ fetchState = "readFailed" => (fetchCalls.onError = 1 /\ fetchCalls.onClose = 0)
  /\ fetchState = "readAborted" => (fetchCalls.onError = 0 /\ fetchCalls.onClose = 1)

(* C14: whatever the cuts of the response text into chunks, the events    *)
(* passed to onMessage once the whole text has arrived are those passed    *)
(* when the text arrives in one chunk.                                     *)
ChunkingIndependent ==
  lastIndex = Len(text)
    => emitted = EmitMessages(Feed(<<>>, text).messages, <<>>).events

(* C15: parseSSEMessage returns the values of all the data: lines of the  *)
(* message, in order, joined by a newline, and returns no event exactly    *)
(* when no data: line has a value.                                         *)
IsDataLine(line) == StartsWith(line, "data:")
DataValues(message) ==
  LET ls == SelectSeq(Split(message, <<NL>>), IsDataLine)
  IN [i \in DOMAIN ls |-> Trim(Tail(ls[i]))]

ParseJoinsDataLines ==
  libPc = "returned"
    => LET values == DataValues(text) IN
       /\ parsed.isNull <=> (\A i \in DOMAIN values : values[i] = <<>>)
       /\ ~parsed.isNull => (parsed.data = JoinLines(values) /\ parsed.data # <<>>)

(* C16: the days_of_week of the request is the list of the day codes of   *)
(* the entries that match a weekday name without regard to case, in input  *)
(* order, and [1,3,5] when no entry matches.                               *)
MatchesWeekday(day) ==
  \E name \in DOMAIN dayNameToNumber : ToLowerCase(day) = ToLowerCase(name)
WeekdayCode(day) ==
  Num(dayNameToNumber[CHOOSE name \in DOMAIN dayNameToNumber :
                        ToLowerCase(day) = ToLowerCase(name)])

WeekdayCodes ==
  libPc = "returned" /\ daysOfWeek \in DayLists
    => LET matching == SelectSeq(daysOfWeek, MatchesWeekday)
           codes == [i \in DOMAIN matching |-> WeekdayCode(matching[i])]
       IN daysOfWeekNumbers = IF codes = <<>> THEN <<Num(1), Num(3), Num(5)>> ELSE codes

(* C17: while no call of generateProgram is in flight (none was started,  *)
(* or every one has reached complete or a terminal error), nothing but a   *)
(* new generateProgram call changes stage, error, progress or              *)
(* streamingWorkouts: cancel() is a no-op.                                 *)
NoneInFlight == \A j \in Jobs : pc[j] \in {"none", "done"}

IdleIsImmutable ==
  [][(NoneInFlight /\ jobsStarted' = jobsStarted)
       => UNCHANGED <<stage, error, progress, streamingWorkouts>>]_vars

(* C18: once cancel() was invoked while a call awaits the credential      *)
(* fetch or the retry delay, the call opens no request and makes no        *)
(* further stage change or callback.                                       *)
CancelStopsSuspendedCall ==
  [][\A j \in Jobs :
       (j \in cancelledJobs /\ pc[j] \in {"getSession", "delay"}
          /\ jobsStarted' = jobsStarted)
         => /\ Opens(j)' = Opens(j)
            /\ stage' = stage
            /\ callbacks' = callbacks]_vars

(* C19: once a second generateProgram call was made, no request of the    *)
(* first call is in flight, and no step of the first call (a resumption   *)
(* of generateProgram or an event of one of its requests) changes stage,   *)
(* progress, streamingWorkouts or error.                                   *)
StepOf(j) ==
  \/ pc'[j] # pc[j]
  \/ \E k \in Tries : readyState'[<<j, k>>] # readyState[<<j, k>>]
  \/ \E k \in Tries : processedWorkouts'[<<j, k>>] # processedWorkouts[<<j, k>>]

SecondCallResetsFirst ==
  [][jobsStarted = 2
       => /\ \A k \in Tries : ~InFlight(<<1, k>>)
          /\ (StepOf(1) /\ ~StepOf(2))
               => UNCHANGED <<stage, progress, streamingWorkouts, error>>]_vars

(* C20: at most one elapsed-time interval is active, and none is active   *)
(* while isGenerating is false (after complete, error or cancel).          *)
SingleInterval ==
  /\ Cardinality(intervals) <= 1
  /\ ~isGenerating => intervals = {}

(* C7: a failure that is not transient is never retried. Without a token  *)
(* the call ends at once in stage error with success=false and opens no   *)
(* request (none at all when it is the first pass); an attempt rejected   *)
(* for a status other than 503 and 504 ends the call in stage error; and  *)
(* a call that has ended opens no further request.                        *)
FatalNeverRetried ==
  [][\A j \in Jobs :
       LET a == CurrentAttempt(j) IN
       /\ (pc[j] = "getSession" /\ pc'[j] # "getSession" /\ readyState'[a] = "UNSENT")
            => /\ pc'[j] = "done" /\ stage' = "error"
               /\ result'[j].settled /\ ~result'[j].success
               /\ result'[j].error = MsgNoToken
               /\ Opens(j)' = Opens(j)
               /\ (retryCount[j] = 0 => Opens(j)' = 0)
       /\ (pc[j] = "stream" /\ pc'[j] # "stream" /\ settledBy[a] = "status"
             /\ xhrStatus[a] \notin {503, 504})
            => /\ pc'[j] = "done" /\ stage' = "error"
               /\ result'[j].settled /\ ~result'[j].success
               /\ Opens(j)' = Opens(j)
       /\ pc[j] = "done" => (pc'[j] = "done" /\ Opens(j)' = Opens(j))]_vars

FatalNeverRetriedWitness ==
  /\ pc[1] = "done" /\ stage = "error"
  /\ result[1].settled /\ ~result[1].success
  /\ result[1].error = MsgNoToken
  /\ Opens(1) = 0

(* C8: whatever frames an attempt receives, streamingWorkouts lists every *)
(* unit id handed to onMessage exactly once, each with the content of the *)
(* first frame that carried it, and progress.current is the number of     *)
(* distinct ids, not of frames.                                           *)
IdempotentDelivery ==
  /\ \A i, k \in DOMAIN streamingWorkouts :
       i # k => streamingWorkouts[i].id # streamingWorkouts[k].id
  /\ ListedIds = ChunkIds(delivered)
  /\ Len(streamingWorkouts) = Cardinality(ChunkIds(delivered))
  /\ progress.current = Cardinality(ChunkIds(delivered))
  /\ \A i \in DOMAIN streamingWorkouts :
       streamingWorkouts[i].variant =
         delivered[FirstIndex(delivered, streamingWorkouts[i].id)].variant

IdempotentDeliveryWitness ==
  /\ Len(delivered) = 2
  /\ IsChunk(delivered[1]) /\ IsChunk(delivered[2])
  /\ delivered[1].id = delivered[2].id
  /\ delivered[1].variant # delivered[2].variant
  /\ Len(streamingWorkouts) = 1
  /\ progress.current = 1

(* C9: when a call completes after a retry, streamingWorkouts holds the   *)
(* units of the final attempt and no other.                               *)
OnlyFinalAttemptUnits ==
  \A j \in Jobs :
    (Succeeded(j) /\ retryCount[j] >= 1 /\ stage = "complete")
      => /\ ListedIds = processedWorkouts[CurrentAttempt(j)]
         /\ Len(streamingWorkouts) = Cardinality(processedWorkouts[CurrentAttempt(j)])

(* C10: once the request is prepared progress.total is numberOfWeeks *    *)
(* daysPerWeek, and a call whose response closes resolves success=true in *)
(* stage complete with workoutsCreated the number of distinct unit ids    *)
(* handed to onMessage.                                                   *)
CompletionCount ==
  \A j \in Jobs :
    /\ pc[j] \in {"stream", "done"}
         => progress.total = formData[j].numberOfWeeks * formData[j].daysPerWeek
    /\ result[j].settled
         => /\ result[j].success /\ stage = "complete"
            /\ result[j].workoutsCreated = Cardinality(ChunkIds(delivered))
    /\ (pc[j] = "stream" /\ settledBy[CurrentAttempt(j)] = "eof")
         => ENABLED StreamResolved(j)

CompletionCountWitness ==
  /\ result[1].settled /\ result[1].success
  /\ formData[1] = [numberOfWeeks |-> 4, daysPerWeek |-> 3]
  /\ progress.total = 12
  /\ result[1].workoutsCreated = MaxUnits
  /\ \E i \in DOMAIN delivered : delivered[i].type = "complete"

(* C21: every change of stage is an edge of the state machine: idle,      *)
(* complete or error to preparing (only by a new generateProgram call),    *)
(* preparing to generating, generating to streaming, streaming to          *)
(* complete, generating or streaming to retrying, retrying to generating,  *)
(* an active stage to error, and any stage to idle (only by cancel()).     *)
ActiveStages == {"preparing", "generating", "streaming", "retrying"}
Stages == ActiveStages \cup {"idle", "complete", "error"}
StageEdges ==
  {<<"idle", "preparing">>, <<"complete", "preparing">>, <<"error", "preparing">>,
   <<"preparing", "generating">>, <<"generating", "streaming">>,
   <<"streaming", "complete">>, <<"generating", "retrying">>,
   <<"streaming", "retrying">>, <<"retrying", "generating">>}
    \cup {<<s, "error">> : s \in ActiveStages}
    \cup {<<s, "idle">> : s \in Stages}

StageMachine ==
  [][stage' # stage
       => /\ <<stage, stage'>> \in StageEdges
          /\ stage' = "idle" => (error' = MsgCancelled /\ abortControllerRef' = NoAttempt)
          /\ stage' = "preparing" => jobsStarted' = jobsStarted + 1]_vars

(* C22: an invocation of createSSEClientWithPost invokes onOpen exactly   *)
(* once when the status of its response is 2xx, before any frame is handed *)
(* to onMessage, and never when the status is not 2xx.                     *)
SuccessStatuses == 200..299
HeadersSeen(a) == readyState[a] \in {"HEADERS_RECEIVED", "LOADING", "DONE"}

OnOpenOncePerSuccess ==
  \A a \in Attempts :
    /\ (HeadersSeen(a) /\ xhrStatus[a] \in SuccessStatuses) => callbacks[a].onOpen = 1
    /\ xhrStatus[a] \notin SuccessStatuses => callbacks[a].onOpen = 0
    /\ callbacks[a].onOpen <= 1

(* C24: after any sequence of LOADING / DONE transitions the text appended *)
(* to the frame buffer is the response text received so far, each piece    *)
(* once and in order, and the buffer is the unfinished message at its end. *)
SuffixFedOnce ==
  /\ lastIndex <= Len(text)
  /\ consumed = SubSeq(text, 1, lastIndex)
  /\ buffer = Feed(<<>>, consumed).buffer

SuffixFedOnceWitness ==
  /\ lastIndex = Len(text)
  /\ consumed = text
  /\ Len(emitted) = 2
  /\ emitted[1].data = <<"error">>
  /\ emitted[2].data = <<"error">>

(* C23: the events handed to onMessage are messages of the response text, *)
(* in the order of the text (all of them, when none makes onMessage        *)
(* throw), and streamingWorkouts lists the units in the order their ids    *)
(* were first handed to onMessage: it only grows at its end.               *)
RECURSIVE ParseAll(_)
ParseAll(messages) ==
  IF messages = <<>> THEN <<>>
  ELSE LET event == parseSSEMessage(Head(messages))
       IN (IF Trim(Head(messages)) # <<>> /\ ~event.isNull THEN <<event>> ELSE <<>>)
            \o ParseAll(Tail(messages))

FramesOf(txt) == ParseAll(SubSeq(Split(txt, <<NL, NL>>), 1, Len(Split(txt, <<NL, NL>>)) - 1))

RECURSIVE IsSubseq(_, _)
IsSubseq(s, t) ==
  IF s = <<>> THEN TRUE
  ELSE IF t = <<>> THEN FALSE
  ELSE IF Head(s) = Head(t) THEN IsSubseq(Tail(s), Tail(t))
  ELSE IsSubseq(s, Tail(t))

IsPrefix(s, t) == Len(s) <= Len(t) /\ SubSeq(t, 1, Len(s)) = s

RECURSIVE FirstSeen(_, _)
FirstSeen(d, seen) ==
  IF d = <<>> THEN <<>>
  ELSE IF IsChunk(Head(d)) /\ Head(d).id \notin seen
    THEN <<[id |-> Head(d).id, variant |-> Head(d).variant]>>
           \o FirstSeen(Tail(d), seen \cup {Head(d).id})
    ELSE FirstSeen(Tail(d), seen)

NoThrow(txt) == \A i \in DOMAIN txt : txt[i] # "error"

FramesInOrder ==
  [][/\ IsPrefix(emitted, emitted')
     /\ IsSubseq(emitted', FramesOf(consumed'))
     /\ NoThrow(text) => emitted' = FramesOf(consumed')
     /\ delivered' = [i \in DOMAIN emitted' |-> JsonParse(emitted'[i].data)]
     /\ streamingWorkouts' = FirstSeen(delivered', {})
     /\ IsPrefix(streamingWorkouts, streamingWorkouts') \/ jobsStarted' # jobsStarted]_vars

FramesInOrderWitness ==
  /\ readyState[<<1, 0>>] = "DONE"
  /\ Len(emitted) = 3
  /\ emitted[1].data = <<"error">>
  /\ emitted[2].data = <<"w2">>
  /\ emitted[3].data = <<"w1">>
  /\ streamingWorkouts = <<[id |-> 2, variant |-> "v1"], [id |-> 1, variant |-> "v1"]>>

(* C25: a frame that is not JSON, or whose type is status,                *)
(* program_metadata, warning or complete, changes neither stage, progress, *)
(* streamingWorkouts nor error and throws nothing, so that the close of    *)
(* the same transition is still processed; a new unit that comes after it  *)
(* is still added; and the stage becomes complete only once the transport  *)
(* has closed, never in the step that hands a frame to onMessage.          *)
InertTypes == {"notjson", "status", "program_metadata", "warning", "complete"}
InertFrames == {f \in AllFrames : f.type \in InertTypes}

PlainFrameIsInert ==
  [][/\ \A f \in InertFrames :
          delivered' = Append(delivered, f)
            => /\ UNCHANGED <<stage, progress, streamingWorkouts, error>>
               /\ errorPayload' = errorPayload
               /\ \A a \in Attempts :
                    (readyState[a] # "DONE" /\ readyState'[a] = "DONE")
                      => promise'[a] = "resolved"
     /\ \A f \in AllFrames :
          (IsChunk(f) /\ f.id \notin ListedIds /\ delivered' = Append(delivered, f))
            => streamingWorkouts' =
                 Append(streamingWorkouts, [id |-> f.id, variant |-> f.variant])
     /\ (stage # "complete" /\ stage' = "complete")
          => /\ delivered' = delivered
             /\ \E a \in Attempts : settledBy[a] = "eof" /\ promise[a] = "resolved"]_vars

PlainFrameIsInertWitness ==
  /\ Len(delivered) = 3
  /\ delivered[1].type = "notjson"
  /\ delivered[2].type = "complete"
  /\ IsChunk(delivered[3])
  /\ Len(streamingWorkouts) = 1
  /\ stage = "streaming"

(* C26: while the stage is error the error message is not empty, and when *)
(* a call has failed after its retries were used up the message is the     *)
(* one of the failure of its last request.                                 *)
RetriesExhausted(j) == pc[j] = "done" /\ retryCount[j] > MAX_RETRIES

ErrorStageHasMessage ==
  /\ stage = "error" => error # Null
  /\ \A j \in Jobs :
       (stage = "error" /\ RetriesExhausted(j))
         => /\ error = rejection[<<j, MAX_RETRIES>>]
            /\ error = HttpErrorMsg(xhrStatus[<<j, MAX_RETRIES>>])
            /\ result[j].error = error

ErrorStageHasMessageWitness ==
  /\ stage = "error"
  /\ RetriesExhausted(1)
  /\ rejection[<<1, 0>>] = HttpErrorMsg(503)
  /\ error = HttpErrorMsg(504)

(* C27: progress.current is the number of units in streamingWorkouts. *)
CurrentIsUnitCount == progress.current = Len(streamingWorkouts)

(* C28: a call of generateProgram that was started eventually settles,    *)
(* whatever frames its responses carry.                                    *)
EventuallySettles ==
  \A j \in SingleCall : (pc[j] # "none") ~> result[j].settled

(* C29: isGenerating is true exactly when the stage is preparing,         *)
(* generating, streaming or retrying.                                      *)
GeneratingIffActive == isGenerating <=> stage \in ActiveStages

(* C30: when the body has ended and onClose was invoked, every message of *)
(* the response text that holds data was handed to onMessage, the last     *)
(* one included when no blank line follows it.                             *)
NoFrameDropped ==
  fetchState = "closed" => emitted = ParseAll(Split(text, <<NL, NL>>))
====
